---- MODULE Spec2Model ----
(***************************************************************************)
(* Model of src/app.py: the Clone Hero song browser.                       *)
(*                                                                         *)
(* Text is a sequence of one-character strings, so that splitting,         *)
(* case folding, substring search and number formatting are computed.      *)
(* A Python value is a record tagged by its type:                          *)
(*   [t |-> "none"]              None                                      *)
(*   [t |-> "bool", b |-> ..]    True / False                              *)
(*   [t |-> "int", n |-> ..]     an int                                    *)
(*   [t |-> "float", tenths |-> k]  the finite float k/10                  *)
(*   [t |-> "nan"], [t |-> "inf"], [t |-> "neginf"]  the other floats      *)
(*   [t |-> "str", s |-> ..]     a str                                     *)
(*   [t |-> "dict", items |-> ..]  a JSON object: <<key, value>> pairs     *)
(*   [t |-> "list", items |-> ..]  a JSON array                            *)
(* Library behaviour (pandas 1.5 - 2.x object-dtype semantics, Python re,  *)
(* Streamlit's cache_data) is modelled from the calls the source makes.    *)
(***************************************************************************)
EXTENDS Integers, Sequences, FiniteSets, TLC

VARIABLES
    file,           \* what SONGLIST_FILE holds on disk
    cache,          \* st.cache_data's entries for load_song_data, by file_path
    df_songs,       \* what the last load_song_data call returned
    msgs,           \* st.error / st.warning / st.info of the last call or run
    search_name,    \* st.text_input "search_name"
    search_artist,  \* st.text_input "search_artist"
    view,           \* how the last script run ended, and the table it drew
    in_sync,        \* TRUE while the file is unchanged since the last load call
    fmt_in,         \* argument of a direct format_songlength call
    fmt_out         \* its result

vars == <<file, cache, df_songs, msgs, search_name, search_artist, view,
          in_sync, fmt_in, fmt_out>>

\* ----------------------------------------------------------------- bounds

\* Longest song, in whole seconds, given to format_songlength directly.
MaxSeconds == 6000

\* Longest JSON array in the file.
MaxLen == 2

\* Longest text typed into a filter box.
MaxQuery == 2

\* ------------------------------------------------------------------- text

UpperChars == <<"A","B","C","D","E","F","G","H","I","J","K","L","M",
                "N","O","P","Q","R","S","T","U","V","W","X","Y","Z">>
LowerChars == <<"a","b","c","d","e","f","g","h","i","j","k","l","m",
                "n","o","p","q","r","s","t","u","v","w","x","y","z">>

\* str.lower() / re.IGNORECASE folding of one ASCII character.
LowerChar(c) ==
    IF \E i \in 1..26 : UpperChars[i] = c
    THEN LowerChars[CHOOSE i \in 1..26 : UpperChars[i] = c]
    ELSE c

DigitChars == <<"0","1","2","3","4","5","6","7","8","9">>

IsDigit(c) == \E i \in 1..10 : DigitChars[i] = c

\* str(n) / format(n, "d") of a non-negative int.
RECURSIVE Digits(_)
Digits(n) ==
    IF n < 10 THEN <<DigitChars[n + 1]>>
    ELSE Digits(n \div 10) \o <<DigitChars[(n % 10) + 1]>>

\* Mutant of Format02: the width is dropped, f"{n}".
Format02_NoPad(n) == Digits(n)

\* f"{n:02}": zero-padded to a width of at least two.
Format02(n) == IF n < 10 THEN <<"0">> \o Digits(n) ELSE Digits(n)

\* ----------------------------------------------------- format_songlength

NA == <<"N","/","A">>
Invalid == <<"I","n","v","a","l","i","d">>
ErrorStr == <<"E","r","r","o","r">>

None == [t |-> "none"]
NaN == [t |-> "nan"]
Inf == [t |-> "inf"]
NegInf == [t |-> "neginf"]
PyInt(n) == [t |-> "int", n |-> n]
PyFloat(k) == [t |-> "float", tenths |-> k]
PyBool(b) == [t |-> "bool", b |-> b]
PyStr(s) == [t |-> "str", s |-> s]

\* isinstance(x, (int, float)); bool is a subclass of int.
IsIntOrFloat(x) == x.t \in {"int", "bool", "float", "nan", "inf", "neginf"}

\* x < 0 for an int or float x; every comparison with NaN is False.
IsNegative(x) ==
    CASE x.t = "int" -> x.n < 0
      [] x.t = "float" -> x.tenths < 0
      [] x.t = "neginf" -> TRUE
      [] OTHER -> FALSE

\* int(float(x) / 1000) for a finite x >= 0: truncation to whole seconds.
TotalSeconds(x) ==
    CASE x.t = "int" -> x.n \div 1000
      [] x.t = "float" -> x.tenths \div 10000
      [] x.t = "bool" -> 0

format_songlength(milliseconds) ==
    IF milliseconds.t = "none" \/ ~IsIntOrFloat(milliseconds) \/ IsNegative(milliseconds)
    THEN NA
    ELSE IF milliseconds.t = "nan"
    THEN Invalid       \* int(nan) raises ValueError
    ELSE IF milliseconds.t = "inf"
    THEN ErrorStr      \* int(inf) raises OverflowError, caught by except Exception
    ELSE LET total_seconds == TotalSeconds(milliseconds)
             minutes == total_seconds \div 60
             seconds == total_seconds % 60
         IN  Format02(minutes) \o <<":">> \o Format02(seconds)

\* ------------------------------------------------------------ JSON input

Dict(items) == [t |-> "dict", items |-> items]
List(items) == [t |-> "list", items |-> items]

SONGLIST_FILE == "songs.json"

NameCol == <<"N","a","m","e">>
ArtistCol == <<"A","r","t","i","s","t">>
PlaylistCol == <<"P","l","a","y","l","i","s","t">>
YearCol == <<"Y","e","a","r">>
SonglengthCol == <<"s","o","n","g","l","e","n","g","t","h">>
LengthCol == <<"L","e","n","g","t","h">>
LengthLabel == <<"S","o","n","g"," ","L","e","n","g","t","h"," ",
                 "(","M","M",":","S","S",")">>

\* The playlist the loader keeps.
TargetPlaylist == <<"g","u","i","t","a","r"," ","h","e","r","o"," ","3">>

Range(seq) == {seq[i] : i \in 1..Len(seq)}

\* F(x) with x evaluated once (a local variable of the code).
Bind(x, F(_)) == CHOOSE r \in {F(v) : v \in {x}} : TRUE

\* str.lower() of a text.
LowerStr(s) == [i \in 1..Len(s) |-> LowerChar(s[i])]

\* key in d, d[key] for a JSON object d.
HasKey(d, key) == \E i \in 1..Len(d.items) : d.items[i][1] = key
Get(d, key) == d.items[CHOOSE i \in 1..Len(d.items) : d.items[i][1] = key][2]
KeySeq(d) == [i \in 1..Len(d.items) |-> d.items[i][1]]

\* seq with the elements of more it does not hold yet appended, in order.
RECURSIVE AppendNew(_, _)
AppendNew(seq, more) ==
    IF more = <<>> THEN seq
    ELSE AppendNew(IF Head(more) \in Range(seq) THEN seq ELSE Append(seq, Head(more)),
                   Tail(more))

\* ------------------------------------------------------- pandas DataFrame

\* A frame is [t |-> "frame", columns |-> a sequence of column names,
\* rows |-> a sequence of functions from the column names to cells]. A cell
\* is a Python value; NaN is also what a missing entry holds.

\* The columns of pd.DataFrame(data): the keys in order of first appearance.
RECURSIVE ColumnsOf(_)
ColumnsOf(data) ==
    IF data = <<>> THEN <<>>
    ELSE AppendNew(KeySeq(Head(data)), ColumnsOf(Tail(data)))

IsNull(x) == x.t \in {"none", "nan"}
IsNumber(x) == x.t \in {"int", "float", "nan", "inf", "neginf"}

\* A cell of a float64 column.
ToFloat(x) ==
    CASE x.t = "none" -> NaN
      [] x.t = "int" -> PyFloat(x.n * 10)
      [] OTHER -> x

\* The dtype inference of the frame constructor on one column's raw values
\* (lib.maybe_convert_objects): a column of numbers with a None or a missing
\* entry becomes float64 and its nulls NaN; a column holding a str (or any
\* other object) stays object and keeps None as None; a column of None alone
\* stays object.
InferColumn(raw) ==
    IF \A i \in 1..Len(raw) : raw[i].t = "none" THEN raw
    ELSE IF \A i \in 1..Len(raw) : raw[i].t = "int" THEN raw
    ELSE IF \A i \in 1..Len(raw) : IsNumber(raw[i]) \/ raw[i].t = "none"
    THEN [i \in 1..Len(raw) |-> ToFloat(raw[i])]
    ELSE raw

\* pd.DataFrame(data) for a list of dicts.
DataFrame(data) ==
    LET raw(c) == [i \in 1..Len(data) |->
                     IF HasKey(data[i], c) THEN Get(data[i], c) ELSE NaN]
        Frame(cols) ==
            Bind([c \in Range(cols) |-> Bind(raw(c), LAMBDA r : InferColumn(r))],
                 LAMBDA col :
                    [t |-> "frame", columns |-> cols,
                     rows |-> [i \in 1..Len(data) |-> [c \in Range(cols) |-> col[c][i]]]])
    IN  Bind(ColumnsOf(data), LAMBDA cols : Frame(cols))

\* df[col] = value
SetColumn(df, c, value) ==
    [t |-> "frame", columns |-> IF c \in Range(df.columns) THEN df.columns ELSE Append(df.columns, c),
     rows |-> [i \in 1..Len(df.rows) |->
                 [k \in Range(df.columns) \cup {c} |->
                    IF k = c THEN value[i] ELSE df.rows[i][k]]]]

\* df.rename(columns={old: new}, inplace=True)
Rename(df, old, new) ==
    [t |-> "frame", columns |-> [i \in 1..Len(df.columns) |->
                    IF df.columns[i] = old THEN new ELSE df.columns[i]],
     rows |-> [i \in 1..Len(df.rows) |->
                 [k \in (Range(df.columns) \ {old}) \cup {new} |->
                    IF k = new THEN df.rows[i][old] ELSE df.rows[i][k]]]]

\* df[mask]: the rows whose mask is True, in order.
RECURSIVE KeepRows(_, _)
KeepRows(rows, mask) ==
    IF rows = <<>> THEN <<>>
    ELSE (IF Head(mask) THEN <<Head(rows)>> ELSE <<>>)
         \o KeepRows(Tail(rows), Tail(mask))

Mask(df, mask) == [t |-> "frame", columns |-> df.columns, rows |-> KeepRows(df.rows, mask)]

\* str(x), as Series.astype(str) applies it to every cell: None and NaN
\* become the texts "None" and "nan".
AsStr(x) ==
    CASE x.t = "str" -> x.s
      [] x.t = "none" -> <<"N","o","n","e">>
      [] x.t = "nan" -> <<"n","a","n">>
      [] x.t = "inf" -> <<"i","n","f">>
      [] x.t = "neginf" -> <<"-","i","n","f">>
      [] x.t = "bool" -> IF x.b THEN <<"T","r","u","e">> ELSE <<"F","a","l","s","e">>
      [] x.t = "int" -> IF x.n < 0 THEN <<"-">> \o Digits(-x.n) ELSE Digits(x.n)
      [] x.t = "float" ->
            LET k == IF x.tenths < 0 THEN -x.tenths ELSE x.tenths
            IN  (IF x.tenths < 0 THEN <<"-">> ELSE <<>>)
                \o Digits(k \div 10) \o <<".">> \o Digits(k % 10)
      [] x.t = "dict" /\ x.items = <<>> -> <<"{","}">>
      [] x.t = "list" /\ x.items = <<>> -> <<"[","]">>

\* The part of s before its first backslash: s.split('\\')[0].
RECURSIVE BeforeBackslash(_)
BeforeBackslash(s) ==
    IF s = <<>> \/ Head(s) = "\\" THEN <<>>
    ELSE <<Head(s)>> \o BeforeBackslash(Tail(s))

\* ------------------------------------------------------------ Python re

\* The patterns modelled are texts over letters, digits, blanks and the
\* metacharacters . * ( [ (no backslash, no closing bracket, no newline in
\* the text searched). re.compile raises re.error on an unterminated "(" or
\* "[" and on a "*" with nothing to repeat or after another "*".
ValidPattern(pat) ==
    /\ \A i \in 1..Len(pat) : pat[i] \notin {"(", "["}
    /\ \A i \in 1..Len(pat) : pat[i] = "*" => (i > 1 /\ pat[i - 1] # "*")

\* One pattern atom against one character, under re.IGNORECASE.
AtomMatches(a, c) == a = "." \/ LowerChar(a) = LowerChar(c)

\* Whether pat from position i on matches s starting at position j.
RECURSIVE MatchAt(_, _, _, _)
MatchAt(pat, i, s, j) ==
    IF i > Len(pat) THEN TRUE
    ELSE IF i < Len(pat) /\ pat[i + 1] = "*"
    THEN \/ MatchAt(pat, i + 2, s, j)
         \/ (j <= Len(s) /\ AtomMatches(pat[i], s[j]) /\ MatchAt(pat, i, s, j + 1))
    ELSE j <= Len(s) /\ AtomMatches(pat[i], s[j]) /\ MatchAt(pat, i + 1, s, j + 1)

\* re.compile(pat, re.IGNORECASE).search(s) is not None, for a valid pat.
RegexSearch(pat, s) == \E j \in 1..(Len(s) + 1) : MatchAt(pat, 1, s, j)

\* -------------------------------------------------------- load_song_data

Msg(level, text, args) == [level |-> level, text |-> text, args |-> args]

\* str(type(x)) of a parsed JSON value.
TypeName(x) ==
    CASE x.t = "dict" -> <<"d","i","c","t">>
      [] x.t = "str" -> <<"s","t","r">>
      [] x.t = "int" -> <<"i","n","t">>
      [] x.t = "float" -> <<"f","l","o","a","t">>
      [] x.t = "bool" -> <<"b","o","o","l">>
      [] x.t = "none" -> <<"N","o","n","e","T","y","p","e">>

required_cols == <<NameCol, ArtistCol, PlaylistCol, YearCol, SonglengthCol>>

\* [item for item in data if isinstance(item, dict)]
OnlyDicts(data) == SelectSeq(data, LAMBDA item : item.t = "dict")

\* One round of the loop over required_cols; st is [df, missing_cols, msgs].
EnsureCol(st, c) ==
    LET cols == st.df.columns
        matches == {i \in 1..Len(cols) : LowerStr(cols[i]) = LowerStr(c)}
    IN  IF c \in Range(cols) THEN st
        ELSE IF matches # {}
        THEN LET existing_col == cols[CHOOSE i \in matches : \A k \in matches : i <= k]
             IN  [st EXCEPT !.df = Rename(st.df, existing_col, c),
                            !.msgs = Append(@, Msg("warning",
                                "Info: Renaming column '{0}' to '{1}' for consistency.",
                                <<existing_col, c>>))]
        ELSE [st EXCEPT !.df = SetColumn(st.df, c, [i \in 1..Len(st.df.rows) |-> None]),
                        !.missing_cols = Append(@, c)]

RECURSIVE EnsureCols(_, _)
EnsureCols(st, cols) ==
    IF cols = <<>> THEN st
    ELSE Bind(EnsureCol(st, Head(cols)), LAMBDA next : EnsureCols(next, Tail(cols)))

\* Mutant of PlaylistTag: the whole value is compared, nothing is split off.
PlaylistTag_NoSplit(x) ==
    IF AsStr(x) = <<"n","a","n">> THEN None ELSE PyStr(AsStr(x))

\* One cell of df['Playlist'].astype(str).str.split('\\').str[0], then
\* .replace('nan', None).
PlaylistTag(x) ==
    LET tag == BeforeBackslash(AsStr(x))
    IN  IF tag = <<"n","a","n">> THEN None ELSE PyStr(tag)

\* The "Process Playlist column" step.
ProcessPlaylist(df) ==
    IF PlaylistCol \in Range(df.columns)
       /\ \E i \in 1..Len(df.rows) : ~IsNull(df.rows[i][PlaylistCol])
    THEN Bind([i \in 1..Len(df.rows) |-> PlaylistTag(df.rows[i][PlaylistCol])],
              LAMBDA tags : SetColumn(df, PlaylistCol, tags))
    ELSE IF PlaylistCol \notin Range(df.columns)
    THEN SetColumn(df, PlaylistCol, [i \in 1..Len(df.rows) |-> None])
    ELSE df

\* df[df["Playlist"] == "guitar hero 3"]
KeepTarget(df) ==
    Mask(df, [i \in 1..Len(df.rows) |-> df.rows[i][PlaylistCol] = PyStr(TargetPlaylist)])

\* Mutant of SkipNonDicts: a non-dict item is taken for an empty song.
SkipNonDicts_Keep(data) ==
    [i \in 1..Len(data) |-> IF data[i].t = "dict" THEN data[i] ELSE Dict(<<>>)]

\* Lines 35-37 of the loader, the data they leave.
SkipNonDicts(data) == IF \A i \in 1..Len(data) : data[i].t = "dict" THEN data ELSE OnlyDicts(data)

\* The body of load_song_data on a parsed JSON list.
LoadList(data) ==
    LET Finish(st) ==
            [df |-> Bind(ProcessPlaylist(st.df), LAMBDA df : KeepTarget(df)),
             msgs |-> st.msgs
                \o (IF st.missing_cols # <<>>
                    THEN <<Msg("warning",
                           "Warning: Column(s) {0} not found in songs.json. They will be shown as empty.",
                           st.missing_cols)>>
                    ELSE <<>>)
                \o (IF PlaylistCol \notin Range(st.df.columns)
                    THEN <<Msg("warning",
                           "Playlist column not found, cannot process or filter by playlist.",
                           <<>>)>>
                    ELSE <<>>)]
        warn == IF \A i \in 1..Len(data) : data[i].t = "dict" THEN <<>>
                ELSE <<Msg("warning",
                       "Warning: Some items in songs.json are not dictionaries (songs). Skipping non-dictionary items.",
                       <<>>)>>
    IN  Bind(DataFrame(SkipNonDicts(data)),
             LAMBDA df0 :
                Bind(EnsureCols([df |-> df0, missing_cols |-> <<>>, msgs |-> warn],
                                required_cols),
                     LAMBDA st : Finish(st)))

\* except FileNotFoundError
NotFound ==
    [df |-> None,
     msgs |-> <<Msg("error", "Error: Song list file 'songs.json' not found.", <<>>),
                Msg("info", "Please make sure 'songs.json' is in the same directory as the script and contains your song list in JSON format.", <<>>)>>]

\* except json.JSONDecodeError
DecodeError ==
    [df |-> None,
     msgs |-> <<Msg("error", "Error: Could not decode JSON from 'songs.json'. Please ensure it's a valid JSON file.", <<>>),
                Msg("info", "The file should start with '[' and end with ']', with song objects '{...}' separated by commas.", <<>>)>>]

\* except Exception (the file cannot be read or decoded as UTF-8)
Unexpected ==
    [df |-> None,
     msgs |-> <<Msg("error", "An unexpected error occurred while loading the data: {e}", <<>>)>>]

\* Mutant of NotAList: the shape check is lost and the value is taken for
\* an empty list of songs.
NotAList_AsEmpty(top) == LoadList(<<>>)

\* if not isinstance(data, list)
NotAList(top) ==
    [df |-> None,
     msgs |-> <<Msg("error", "Error: Expected a JSON list (array) in songs.json, but found <class '{0}'>.",
                    <<TypeName(top)>>)>>]

\* The body of load_song_data(SONGLIST_FILE) when the file holds f:
\* what it returns and what it reports.
LoadBody(f) ==
    CASE f.k = "missing" -> NotFound
      [] f.k = "badjson" -> DecodeError
      [] f.k = "unreadable" -> Unexpected
      [] f.k = "json" /\ f.top.t # "list" -> NotAList(f.top)
      [] f.k = "json" /\ f.top.t = "list" -> LoadList(f.top.items)

\* ---------------------------------------------------------- st.cache_data

\* An entry is [path, df, msgs]: the value the body returned for that
\* argument and the elements it drew, replayed on a hit. The key is the
\* argument alone.
CacheHit(path) == \E e \in cache : e.path = path
CacheEntry(path) == CHOOSE e \in cache : e.path = path

\* What a call load_song_data(path) yields in the current state.
CachedLoad(path) ==
    IF CacheHit(path)
    THEN [df |-> CacheEntry(path).df, msgs |-> CacheEntry(path).msgs]
    ELSE LoadBody(file)

\* The cache after that call.
CacheAfter(path, out) ==
    IF CacheHit(path) THEN cache
    ELSE cache \cup {[path |-> path, df |-> out.df, msgs |-> out.msgs]}

\* ---------------------------------------------------------- Apply Filters

\* Series.astype(str).str.contains(pat, case=False, na=False) on one cell:
\* pat is a regular expression (regex=True is the default).
CellContains(x, pat) == RegexSearch(pat, AsStr(x))

\* One text filter: [raised |-> TRUE] when compiling the pattern raises.
FilterBy(df, c, pat) ==
    IF pat = <<>> \/ c \notin Range(df.columns) THEN [raised |-> FALSE, df |-> df]
    ELSE IF ~ValidPattern(pat) THEN [raised |-> TRUE, df |-> df]
    ELSE [raised |-> FALSE,
          df |-> Mask(df, [i \in 1..Len(df.rows) |-> CellContains(df.rows[i][c], pat)])]

\* The "Apply Filters" block.
ApplyFilters(df, name_q, artist_q) ==
    Bind(FilterBy(df, NameCol, name_q),
         LAMBDA byName :
            IF byName.raised THEN byName ELSE FilterBy(byName.df, ArtistCol, artist_q))

\* The warnings of that block: a filter on a column the frame lacks.
FilterWarnings(df, name_q, artist_q) ==
    (IF name_q # <<>> /\ NameCol \notin Range(df.columns)
     THEN <<Msg("warning", "Cannot filter by Name: 'Name' column missing.", <<>>)>>
     ELSE <<>>)
    \o (IF artist_q # <<>> /\ ArtistCol \notin Range(df.columns)
        THEN <<Msg("warning", "Cannot filter by Artist: 'Artist' column missing.", <<>>)>>
        ELSE <<>>)

\* ------------------------------------------------ Prepare Data for Display

\* One cell of filtered_df['songlength'].apply(format_songlength).
LengthOf(x) == format_songlength(x)

display_order == <<NameCol, ArtistCol, LengthCol, PlaylistCol, YearCol>>

\* The table st.dataframe draws for a non-empty filtered frame.
DisplayTable(df) ==
    LET Length ==
            IF SonglengthCol \in Range(df.columns)
            THEN [i \in 1..Len(df.rows) |-> PyStr(LengthOf(df.rows[i][SonglengthCol]))]
            ELSE [i \in 1..Len(df.rows) |-> PyStr(NA)]
        Shown(withLength) ==
            LET display_columns ==
                    SelectSeq(display_order, LAMBDA c : c \in Range(withLength.columns))
                shown == [i \in 1..Len(display_columns) |->
                            IF display_columns[i] = LengthCol THEN LengthLabel
                            ELSE display_columns[i]]
            IN  [columns |-> shown,
                 rows |-> [i \in 1..Len(df.rows) |->
                             [k \in Range(shown) |->
                                IF k = LengthLabel THEN withLength.rows[i][LengthCol]
                                ELSE withLength.rows[i][k]]]]
    IN  Bind(Length, LAMBDA len :
             Bind(SetColumn(df, LengthCol, len), LAMBDA withLength : Shown(withLength)))

NoTable == [columns |-> <<>>, rows |-> <<>>]

\* --------------------------------------------------------------- actions

Unset == <<"u","n","s","e","t">>

\* One call of load_song_data(SONGLIST_FILE), through the cache.
LoadCall ==
    \E out \in {CachedLoad(SONGLIST_FILE)} :
        /\ df_songs' = out.df
        /\ msgs' = out.msgs
        /\ cache' = CacheAfter(SONGLIST_FILE, out)
        /\ in_sync' = TRUE
        /\ UNCHANGED <<file, search_name, search_artist, view, fmt_in, fmt_out>>

\* One run of the script, top to bottom, with the two text inputs holding
\* name_q and artist_q.
Run(name_q, artist_q) ==
    \E out \in {CachedLoad(SONGLIST_FILE)} : \E df \in {out.df} :
        /\ df_songs' = df
        /\ cache' = CacheAfter(SONGLIST_FILE, out)
        /\ in_sync' = TRUE
        /\ UNCHANGED <<file, fmt_in, fmt_out>>
        /\ IF df.t = "frame" /\ df.rows # <<>>
           THEN \E res \in {ApplyFilters(df, name_q, artist_q)} :
                    /\ search_name' = name_q
                    /\ search_artist' = artist_q
                    /\ IF res.raised
                       THEN /\ view' = [status |-> "raised", table |-> NoTable]
                            /\ msgs' = out.msgs \o FilterWarnings(df, name_q, artist_q)
                       ELSE IF res.df.rows # <<>>
                       THEN /\ view' = [status |-> "table", table |-> DisplayTable(res.df)]
                            /\ msgs' = out.msgs \o FilterWarnings(df, name_q, artist_q)
                       ELSE /\ view' = [status |-> "no_match", table |-> NoTable]
                            /\ msgs' = out.msgs \o FilterWarnings(df, name_q, artist_q)
                                       \o <<Msg("warning", "No songs match your current filter criteria.", <<>>)>>
           ELSE IF df.t = "frame"
           THEN /\ search_name' = <<>>
                /\ search_artist' = <<>>
                /\ view' = [status |-> "empty", table |-> NoTable]
                /\ msgs' = out.msgs \o <<Msg("warning",
                       "The file 'songs.json' was loaded but appears to be empty or contains no valid song entries.", <<>>)>>
           ELSE /\ search_name' = <<>>
                /\ search_artist' = <<>>
                /\ view' = [status |-> "stopped", table |-> NoTable]
                /\ msgs' = out.msgs

\* The file is replaced, created or removed outside the program.
WriteFile(f) ==
    /\ f # file
    /\ file' = f
    /\ in_sync' = FALSE
    /\ UNCHANGED <<cache, df_songs, msgs, search_name, search_artist, view, fmt_in, fmt_out>>

\* A direct call format_songlength(fmt_in).
Format ==
    /\ fmt_out = Unset
    /\ fmt_out' = format_songlength(fmt_in)
    /\ UNCHANGED <<file, cache, df_songs, msgs, search_name, search_artist, view,
                   in_sync, fmt_in>>

\* ---------------------------------------------------------------- inputs

SeqsUpTo(S, n) == UNION {[1..k -> S] : k \in 0..n}

Song(name, artist, playlist, year, songlength) ==
    Dict(<<<<NameCol, name>>, <<ArtistCol, artist>>, <<PlaylistCol, playlist>>,
           <<YearCol, year>>, <<SonglengthCol, songlength>>>>)

GH3 == PyStr(TargetPlaylist)

\* Arguments of a direct format_songlength call.
FormatInputs ==
    {PyInt(sec * 1000 + r) : sec \in 0..MaxSeconds, r \in {0, 999}}
    \cup {PyInt(-5), PyInt(-1)}
    \cup {PyFloat(sec * 10000 + r) : sec \in {0, 1, 65, 3599, 6000}, r \in {0, 5, 9999}}
    \cup {PyFloat(-5), None, NaN, Inf, NegInf, PyBool(TRUE), PyBool(FALSE),
          PyStr(<<"a","b","c">>), PyStr(<<"1","2">>), PyStr(<<>>),
          Dict(<<>>), List(<<>>)}

\* Elements of the JSON array that differ in their playlist; the Year tells
\* them apart.
LoadElements ==
    { Dict(<<<<NameCol, PyStr(<<"A">>)>>, <<PlaylistCol, GH3>>, <<YearCol, PyInt(1)>>>>),
      Dict(<<<<PlaylistCol, PyStr(TargetPlaylist \o <<"\\","b","o","n","u","s">>)>>,
             <<YearCol, PyInt(2)>>>>),
      Dict(<<<<PlaylistCol, PyStr(<<"G","u","i","t","a","r"," ","H","e","r","o"," ","3">>)>>,
             <<YearCol, PyInt(3)>>>>),
      Dict(<<<<PlaylistCol, None>>, <<YearCol, PyInt(4)>>>>),
      Dict(<<<<YearCol, PyInt(5)>>>>),
      Dict(<<<<LowerStr(PlaylistCol), GH3>>, <<YearCol, PyInt(6)>>>>),
      Dict(<<<<PlaylistCol, PyStr(<<"r","o","c","k"," ","b","a","n","d">>)>>,
             <<YearCol, PyInt(7)>>>>),
      Dict(<<<<PlaylistCol, PyStr(<<"\\">> \o TargetPlaylist)>>, <<YearCol, PyInt(8)>>>>),
      Dict(<<<<PlaylistCol, PyStr(<<"n","a","n","\\">> \o TargetPlaylist)>>,
             <<YearCol, PyInt(9)>>>>),
      PyStr(TargetPlaylist),
      None }

\* Top-level JSON values that are no array.
NonLists == {Dict(<<<<<<"a">>, PyInt(1)>>>>), PyStr(<<"a">>), PyInt(1), None}

Failures ==
    {[k |-> "missing"], [k |-> "badjson"], [k |-> "unreadable"]}
    \cup {[k |-> "json", top |-> x] : x \in NonLists}

LoadFiles ==
    Failures \cup {[k |-> "json", top |-> List(d)] : d \in SeqsUpTo(LoadElements, MaxLen)}

\* Songs of the kept playlist that differ in name, artist and duration.
FilterElements ==
    { Song(PyStr(<<"N","o">>), PyStr(<<"a","b">>), GH3, PyInt(1), PyInt(65000)),
      Song(PyStr(<<"a",".">>), PyStr(<<"B","[">>), GH3, PyInt(2), None),
      Song(None, PyStr(<<"a","b">>), GH3, PyInt(3), PyInt(-5)),
      Dict(<<<<ArtistCol, None>>, <<PlaylistCol, GH3>>, <<YearCol, PyInt(4)>>>>),
      Dict(<<<<NameCol, PyStr(<<"a","b">>)>>, <<PlaylistCol, GH3>>, <<YearCol, PyInt(5)>>,
             <<SonglengthCol, PyStr(<<"a","b","c">>)>>>>) }

FilterFiles == {[k |-> "json", top |-> List(d)] : d \in SeqsUpTo(FilterElements, MaxLen)}

NameQueries == SeqsUpTo({"n", ".", "*"}, MaxQuery)
ArtistQueries == SeqsUpTo({"b", "("}, MaxQuery)

\* The file states of the long-running app.
AppFiles ==
    Failures \cup {[k |-> "json", top |-> List(d)] :
                     d \in {<<>>, <<Song(PyStr(<<"N","o">>), PyStr(<<"a","b">>), GH3,
                                         PyInt(1), PyInt(65000))>>,
                            <<Song(PyStr(<<"a","b">>), None, GH3, PyInt(2), PyInt(1000)),
                              PyStr(<<"x">>)>>}}

\* --------------------------------------------------------- specifications

InitCommon ==
    /\ cache = {}
    /\ df_songs = None
    /\ msgs = <<>>
    /\ search_name = <<>>
    /\ search_artist = <<>>
    /\ view = [status |-> "init", table |-> NoTable]
    /\ in_sync = FALSE
    /\ fmt_out = Unset

\* The app as a long-running service: the file changes between runs.
Init ==
    /\ InitCommon
    /\ file \in AppFiles
    /\ fmt_in = None

Next ==
    \/ \E f \in AppFiles : WriteFile(f)
    \/ \E name_q \in {<<>>, <<"n">>, <<"(">>} : Run(name_q, <<>>)

Spec == Init /\ [][Next]_vars

\* Direct calls of format_songlength.
InitFormat ==
    /\ InitCommon
    /\ file = [k |-> "missing"]
    /\ fmt_in \in FormatInputs

NextFormat == Format

SpecFormat == InitFormat /\ [][NextFormat]_vars

\* Calls of load_song_data on one file.
InitLoad ==
    /\ InitCommon
    /\ file \in LoadFiles
    /\ fmt_in = None

NextLoad == LoadCall

SpecLoad == InitLoad /\ [][NextLoad]_vars

\* Script runs over one file of songs: the session starts with the two
\* filter texts typed, and the script reruns with them.
InitFilter ==
    /\ cache = {}
    /\ df_songs = None
    /\ msgs = <<>>
    /\ search_name \in NameQueries
    /\ search_artist \in ArtistQueries
    /\ view = [status |-> "init", table |-> NoTable]
    /\ in_sync = FALSE
    /\ fmt_out = Unset
    /\ file \in FilterFiles
    /\ fmt_in = None

NextFilter == view.status = "init" /\ Run(search_name, search_artist)

SpecFilter == InitFilter /\ [][NextFilter]_vars

\* ----------------------------------------------------------------- claims

\* The number a text of decimal digits writes.
RECURSIVE DecimalValue(_)
DecimalValue(chars) ==
    IF chars = <<>> THEN 0
    ELSE 10 * DecimalValue(SubSeq(chars, 1, Len(chars) - 1))
         + (CHOOSE d \in 0..9 : DigitChars[d + 1] = chars[Len(chars)])

AllDigits(chars) == \A i \in 1..Len(chars) : IsDigit(chars[i])

\* floor(ms / 1000) of a finite number.
WholeSeconds(x) == IF x.t = "int" THEN x.n \div 1000 ELSE x.tenths \div 10000

FiniteNonNegative(x) ==
    \/ x.t = "int" /\ x.n >= 0
    \/ x.t = "float" /\ x.tenths >= 0

\* out is <minutes>:<seconds> for the whole seconds of ms, the seconds in
\* two digits and the minutes in at least two.
IsMinutesSeconds(out, ms) ==
    /\ Len(out) >= 5
    /\ out[Len(out) - 2] = ":"
    /\ AllDigits(SubSeq(out, 1, Len(out) - 3))
    /\ AllDigits(SubSeq(out, Len(out) - 1, Len(out)))
    /\ DecimalValue(SubSeq(out, 1, Len(out) - 3)) = WholeSeconds(ms) \div 60
    /\ DecimalValue(SubSeq(out, Len(out) - 1, Len(out))) = WholeSeconds(ms) % 60

\* C1 as stated: for every numeric, non-negative ms format_songlength(ms)
\* is two digits, a colon and two digits, the pairs being the whole seconds
\* div 60 and mod 60 (read for the finite numbers).
C1_AlwaysTwoDigits ==
    (fmt_out # Unset /\ FiniteNonNegative(fmt_in))
        => (Len(fmt_out) = 5 /\ IsMinutesSeconds(fmt_out, fmt_in))

\* C1 as amended: for every finite numeric ms >= 0 the result is
\* <minutes>:<seconds>, zero-padded, with the seconds in two digits; the
\* minutes take two digits exactly when ms is below 100 minutes (6,000,000)
\* and more from there on.
C1_MinutesSeconds ==
    (fmt_out # Unset /\ FiniteNonNegative(fmt_in))
        => /\ IsMinutesSeconds(fmt_out, fmt_in)
           /\ (Len(fmt_out) = 5) <=> (WholeSeconds(fmt_in) < 100 * 60)

C1_Witness ==
    /\ fmt_in = PyInt(65000)
    /\ fmt_out = <<"0","1",":","0","5">>

\* C3 as stated: format_songlength of a value that fails numeric coercion,
\* such as "abc", is "Invalid", not the "N/A" of null or negative input.
C3_MalformedIsInvalid ==
    (fmt_out # Unset /\ fmt_in = PyStr(<<"a","b","c">>)) => fmt_out = Invalid

\* The element of the file a row comes from, told by its Year.
SourceOf(row) ==
    CHOOSE e \in Range(file.top.items) : e.t = "dict" /\ Get(e, YearCol) = row[YearCol]

AbsentOrNull(e, key) == ~HasKey(e, key) \/ Get(e, key) = None

DurationUnavailable(e) ==
    \/ AbsentOrNull(e, SonglengthCol)
    \/ (Get(e, SonglengthCol).t = "int" /\ Get(e, SonglengthCol).n < 0)

\* C2 as stated: every displayed row whose record has a null, absent or
\* negative duration shows the Length "N/A".
C2_UnavailableIsNA ==
    view.status = "table" =>
        \A i \in 1..Len(view.table.rows) :
            DurationUnavailable(SourceOf(view.table.rows[i]))
                => view.table.rows[i][LengthLabel] = PyStr(NA)

\* s holds q as a literal substring, letter case ignored.
LiteralContains(s, q) ==
    \E j \in 1..(Len(s) - Len(q) + 1) :
        \A k \in 1..Len(q) : LowerChar(s[j + k - 1]) = LowerChar(q[k])

Years(rows) == [i \in 1..Len(rows) |-> rows[i][YearCol]]

Filtered == view.status \in {"table", "no_match"}

\* C5 as stated: on a dataset whose names and artists are strings, the
\* filter step yields exactly the records, in order, whose name holds the
\* name query and whose artist holds the artist query as literal
\* case-insensitive substrings, an empty query constraining nothing
\* (read for the runs in which the filter step returns).
C5_LiteralSubstringFilter ==
    (Filtered /\ \A i \in 1..Len(df_songs.rows) :
                /\ df_songs.rows[i][NameCol].t = "str"
                /\ df_songs.rows[i][ArtistCol].t = "str")
        => Years(view.table.rows) =
                Years(SelectSeq(df_songs.rows, LAMBDA r :
                    /\ (search_name = <<>> \/ LiteralContains(r[NameCol].s, search_name))
                    /\ (search_artist = <<>> \/ LiteralContains(r[ArtistCol].s, search_artist))))

\* C6 as stated: with a non-empty name (artist) query no record whose name
\* (artist) is null or absent is retained.
C6_NullNeverMatches ==
    view.status = "table" =>
        \A i \in 1..Len(view.table.rows) :
            /\ search_name # <<>> => ~AbsentOrNull(SourceOf(view.table.rows[i]), NameCol)
            /\ search_artist # <<>> => ~AbsentOrNull(SourceOf(view.table.rows[i]), ArtistCol)

\* C7 as stated: the filter step never raises, whatever the two query
\* texts are.
C7_FilterNeverRaises == view.status # "raised"

\* s is tag, alone or followed by a backslash (tag holds no backslash).
TagIs(s, tag) ==
    /\ Len(s) >= Len(tag)
    /\ SubSeq(s, 1, Len(tag)) = tag
    /\ (Len(s) = Len(tag) \/ s[Len(tag) + 1] = "\\")

\* The key that holds the playlist of the objects objs: Playlist, or when
\* no object has it the first key that spells it in another letter case.
PlaylistKeyOf(objs) ==
    LET keys == ColumnsOf(objs)
        alike == {i \in 1..Len(keys) : LowerStr(keys[i]) = LowerStr(PlaylistCol)}
    IN  IF PlaylistCol \in Range(keys) \/ alike = {} THEN PlaylistCol
        ELSE keys[CHOOSE i \in alike : \A k \in alike : i <= k]

InTargetPlaylist(e, key) ==
    /\ HasKey(e, key)
    /\ Get(e, key).t = "str"
    /\ TagIs(Get(e, key).s, TargetPlaylist)

Loaded == in_sync /\ file.k = "json" /\ file.top.t = "list"

\* C4: the dataset load_song_data returns holds exactly the object
\* elements of the array, in order, whose playlist value up to its first
\* backslash is "guitar hero 3" exactly; a null or missing playlist is
\* never kept, and no match gives an empty dataset, not a failure.
C4_KeepsTargetPlaylist ==
    Loaded =>
        LET objs == SelectSeq(file.top.items, LAMBDA e : e.t = "dict")
            key == PlaylistKeyOf(objs)
            kept == SelectSeq(objs, LAMBDA e : InTargetPlaylist(e, key))
        IN  /\ df_songs.t = "frame"
            /\ Years(df_songs.rows) = [i \in 1..Len(kept) |-> Get(kept[i], YearCol)]
            /\ \A i \in 1..Len(df_songs.rows) :
                   df_songs.rows[i][PlaylistCol] = PyStr(TargetPlaylist)

C4_Witness ==
    /\ Loaded
    /\ Len(file.top.items) = 2
    /\ df_songs.t = "frame"
    /\ Years(df_songs.rows) = <<PyInt(2)>>

NonDictWarning ==
    Msg("warning",
        "Warning: Some items in songs.json are not dictionaries (songs). Skipping non-dictionary items.",
        <<>>)

HasNonDict == \E i \in 1..Len(file.top.items) : file.top.items[i].t # "dict"

WithoutNonDicts ==
    [k |-> "json", top |-> List(SelectSeq(file.top.items, LAMBDA e : e.t = "dict"))]

\* C9: an array holding elements that are no objects loads; a warning is
\* reported and the result is the one the array without those elements
\* gives.
C9_NonObjectsSkipped ==
    (Loaded /\ HasNonDict) =>
        /\ df_songs.t = "frame"
        /\ df_songs = LoadBody(WithoutNonDicts).df
        /\ msgs = <<NonDictWarning>> \o LoadBody(WithoutNonDicts).msgs

C9_Witness ==
    /\ Loaded
    /\ HasNonDict
    /\ df_songs.t = "frame"
    /\ Years(df_songs.rows) = <<PyInt(1)>>
    /\ NonDictWarning \in Range(msgs)

FatalKind(f) ==
    CASE f.k = "missing" -> "FileNotFound"
      [] f.k = "badjson" -> "ParseError"
      [] f.k = "json" /\ f.top.t # "list" -> "SchemaError"
      [] OTHER -> "none"

Errors(m) == SelectSeq(m, LAMBDA x : x.level = "error")

\* C8: a load that fails (file not found, invalid JSON, top level no array)
\* returns no dataset and reports one error, a different one for each of
\* the three cases; every run whose load returned no dataset stops without
\* filtering and draws no row.
C8_FatalLoadStops ==
    /\ \A f, g \in Failures :
          (FatalKind(f) # "none" /\ FatalKind(g) # "none" /\ FatalKind(f) # FatalKind(g))
              => /\ Len(Errors(LoadBody(f).msgs)) = 1
                 /\ Errors(LoadBody(f).msgs)[1].text # Errors(LoadBody(g).msgs)[1].text
    /\ [][(cache' # cache /\ FatalKind(file) # "none")
            => /\ df_songs' = None
               /\ Errors(msgs') = Errors(LoadBody(file).msgs)
               /\ Len(Errors(msgs')) = 1]_vars
    /\ [](df_songs = None /\ view.status # "init"
            => /\ view.status = "stopped"
               /\ view.table = NoTable
               /\ search_name = <<>> /\ search_artist = <<>>)

C8_Witness ==
    /\ in_sync
    /\ FatalKind(file) = "SchemaError"
    /\ df_songs = None
    /\ view.status = "stopped"
    /\ Len(Errors(msgs)) = 1

\* C10 as stated: every load_song_data call returns the outcome derived
\* from the file's content at the time of the call.
C10_OutcomeOfCurrentContent ==
    in_sync => (df_songs = LoadBody(file).df /\ Errors(msgs) = Errors(LoadBody(file).msgs))

====
